---- MODULE Spec2Model ----
(***************************************************************************)
(* Model of the Bencode decoder of src/src/main.rs.                        *)
(*                                                                         *)
(* decode_bencoded_value(encoded_value: &str) -> (Bencode, &str) is a      *)
(* recursive function.  It is modelled as a state machine with an explicit *)
(* call stack: one frame per activation that is inside the list loop       *)
(* (lines 84-92) or the dictionary loop (lines 99-107), and one action per *)
(* arm of the match of line 52 and per loop-body continuation.             *)
(*                                                                         *)
(* A &str is modelled as the sequence of its UTF-8 bytes.  The bytes of    *)
(* the model are the ASCII characters the decoder looks at, and one        *)
(* two-byte character (U+00E9, bytes C3 A9), so that str::len and the      *)
(* slices rest[..len], rest[len..] of line 56 count bytes as they do in    *)
(* Rust and a slice that does not end on a character boundary panics.      *)
(*                                                                         *)
(* A panic (panic!, Option::unwrap on None, Result::unwrap on Err, a slice *)
(* out of range) unwinds every activation and aborts the process: the      *)
(* function has no error return (its type is (Bencode, &str)).             *)
(*                                                                         *)
(* Integer width: usize and i64 overflow need a text of 19 digits or more; *)
(* the inputs of the model are shorter than that (MaxRaw, MaxParts), so    *)
(* the overflow branch of str::parse is out of reach and is not modelled.  *)
(***************************************************************************)
EXTENDS Integers, Sequences, FiniteSets, TLC

VARIABLES input, pc, arg, stack, ret

vars == <<input, pc, arg, stack, ret>>

(***************************************************************************)
(* Bounds of the model.                                                    *)
(***************************************************************************)
\* every valid UTF-8 text of at most MaxRaw bytes over Alphabet is an input
MaxRaw == 4
\* every concatenation of at most MaxParts members of Tokens is an input
MaxParts == 6

(***************************************************************************)
(* Bytes and texts.                                                        *)
(***************************************************************************)
Digits == {"0", "1", "2", "3", "4", "5", "6", "7", "8", "9"}

DigitVal(c) ==
    CASE c = "0" -> 0 [] c = "1" -> 1 [] c = "2" -> 2 [] c = "3" -> 3
      [] c = "4" -> 4 [] c = "5" -> 5 [] c = "6" -> 6 [] c = "7" -> 7
      [] c = "8" -> 8 [] c = "9" -> 9

\* the bytes the inputs of the model are made of; C3 A9 is the character U+00E9
Alphabet == {"0", "1", ":", "i", "e", "l", "d", "-", "+", "C3", "A9"}

\* a UTF-8 continuation byte: never the first byte of a character
IsContinuation(b) == b = "A9"

IsLead(b) == b = "C3"

\* the byte sequences that are a &str: every C3 is followed by A9, every A9 follows a C3
IsUtf8(s) ==
    \A k \in 1..Len(s) :
        /\ IsLead(s[k]) => (k < Len(s) /\ IsContinuation(s[k + 1]))
        /\ IsContinuation(s[k]) => (k > 1 /\ IsLead(s[k - 1]))

\* str::is_char_boundary: offset n (in bytes, from 0) of s
is_char_boundary(s, n) ==
    \/ n = 0
    \/ n = Len(s)
    \/ (n < Len(s) /\ ~IsContinuation(s[n + 1]))

\* &s[n..]
SliceFrom(s, n) == SubSeq(s, n + 1, Len(s))

\* &s[..n]
SliceTo(s, n) == SubSeq(s, 1, n)

\* the index of the first occurrence of byte c in s, 0 when there is none
FindFirst(s, c) ==
    IF \E k \in 1..Len(s) : s[k] = c
    THEN CHOOSE k \in 1..Len(s) : s[k] = c /\ \A j \in 1..(k - 1) : s[j] # c
    ELSE 0

\* str::split_once(c): None, or Some((before the first c, after it))
split_once(s, c) ==
    LET k == FindFirst(s, c)
    IN  IF k = 0
        THEN [some |-> FALSE, before |-> <<>>, after |-> <<>>]
        ELSE [some |-> TRUE, before |-> SliceTo(s, k - 1), after |-> SliceFrom(s, k)]

RECURSIVE DecimalValue(_)
\* the number a sequence of decimal digits denotes
DecimalValue(t) ==
    IF t = <<>> THEN 0
    ELSE 10 * DecimalValue(SliceTo(t, Len(t) - 1)) + DigitVal(t[Len(t)])

AllDigits(t) == \A k \in 1..Len(t) : t[k] \in Digits

\* str::parse::<usize>: an optional "+", then one digit or more
parse_usize(t) ==
    LET body == IF t # <<>> /\ t[1] = "+" THEN Tail(t) ELSE t
    IN  IF body # <<>> /\ AllDigits(body)
        THEN [ok |-> TRUE, n |-> DecimalValue(body)]
        ELSE [ok |-> FALSE, n |-> 0]

\* str::parse::<i64>: an optional "+" or "-", then one digit or more
parse_i64(t) ==
    LET signed == t # <<>> /\ t[1] \in {"+", "-"}
        body == IF signed THEN Tail(t) ELSE t
    IN  IF body # <<>> /\ AllDigits(body)
        THEN [ok |-> TRUE,
              n |-> IF signed /\ t[1] = "-" THEN 0 - DecimalValue(body)
                    ELSE DecimalValue(body)]
        ELSE [ok |-> FALSE, n |-> 0]

(***************************************************************************)
(* enum Bencode.  A HashMap<String, Bencode> is a function from its keys.  *)
(***************************************************************************)
BString(s) == [tag |-> "String", v |-> s]

BInteger(n) == [tag |-> "Integer", v |-> n]

BList(l) == [tag |-> "List", v |-> l]

BDictionary(d) == [tag |-> "Dictionary", v |-> d]

\* HashMap::new()
EmptyMap == <<>>

\* HashMap::insert: a key already present keeps one entry, with the new value
MapInsert(d, key, value) ==
    [k \in (DOMAIN d) \cup {key} |-> IF k = key THEN value ELSE d[k]]

\* no value: the content of ret before any call has returned
NoValue == [tag |-> "None", v |-> <<>>]

NoReturn == [val |-> NoValue, rest |-> <<>>]

(***************************************************************************)
(* The inputs.                                                             *)
(***************************************************************************)
RawInputs ==
    {s \in UNION {[1..n -> Alphabet] : n \in 0..MaxRaw} : IsUtf8(s)}

Tokens == {<<"l">>, <<"d">>, <<"e">>, <<"0", ":">>, <<"i", "0", "e">>}

RECURSIVE Concat(_)
Concat(parts) ==
    IF parts = <<>> THEN <<>> ELSE Head(parts) \o Concat(Tail(parts))

TokenInputs ==
    {Concat(p) : p \in UNION {[1..n -> Tokens] : n \in 0..MaxParts}}

Inputs == RawInputs \cup TokenInputs

(***************************************************************************)
(* The activations.  A frame is an activation of decode_bencoded_value     *)
(* that is waiting for the recursive call it made to return.               *)
(***************************************************************************)
ListFrame(encoded_value, list_string, list) ==
    [kind |-> "l", encoded_value |-> encoded_value, cursor |-> list_string,
     acc |-> list, key |-> <<>>, at |-> "element"]

DictFrame(encoded_value, dict_string, dict, key, at) ==
    [kind |-> "d", encoded_value |-> encoded_value, cursor |-> dict_string,
     acc |-> dict, key |-> key, at |-> at]

Top == stack[Len(stack)]

Pop == SubSeq(stack, 1, Len(stack) - 1)

Init ==
    /\ input \in Inputs
    /\ pc = "call"
    /\ arg = input
    /\ stack = <<>>
    /\ ret = NoReturn

\* the activation on top panics: the process aborts (all frames are unwound)
Panic ==
    /\ pc' = "panic"
    /\ arg' = <<>>
    /\ stack' = <<>>
    /\ ret' = NoReturn
    /\ UNCHANGED input

\* the running activation returns (value, rest) to its caller
Return(value, rest, frames) ==
    /\ pc' = "ret"
    /\ arg' = <<>>
    /\ stack' = frames
    /\ ret' = [val |-> value, rest |-> rest]
    /\ UNCHANGED input

\* the running activation calls decode_bencoded_value(s)
Call(s, frames) ==
    /\ pc' = "call"
    /\ arg' = s
    /\ stack' = frames
    /\ ret' = NoReturn
    /\ UNCHANGED input

\* line 52: encoded_value.chars().next().unwrap() on the empty text
EmptyInput ==
    /\ pc = "call"
    /\ arg = <<>>
    /\ Panic

\* lines 53-61: the string arm
StringArm ==
    /\ pc = "call"
    /\ arg # <<>>
    /\ arg[1] \in Digits
    /\ LET sp == split_once(arg, ":")
           len == parse_usize(sp.before)
       IN  IF sp.some /\ len.ok
           THEN IF /\ len.n <= Len(sp.after)
                   /\ is_char_boundary(sp.after, len.n)
                THEN Return(BString(SliceTo(sp.after, len.n)),
                            SliceFrom(sp.after, len.n), stack)
                ELSE Panic
           ELSE Panic

\* lines 62-78: the integer arm
IntegerArm ==
    /\ pc = "call"
    /\ arg # <<>>
    /\ arg[1] = "i"
    /\ LET sp == split_once(Tail(arg), "e")
           number_string == sp.before
           number == parse_i64(number_string)
       IN  IF ~sp.some
           THEN Panic                                  \* line 67: unwrap on None
           ELSE IF number_string = <<>>
           THEN Panic                                  \* line 68: unwrap on None
           ELSE IF number_string[1] = "0" /\ Len(number_string) > 1
           THEN Panic                                  \* line 69
           ELSE IF number_string = <<"-", "0">>
           THEN Panic                                  \* line 73
           ELSE IF ~number.ok
           THEN Panic                                  \* line 76: unwrap on Err
           ELSE Return(BInteger(number.n), sp.after, stack)

\* lines 79-85: the list arm, up to the first recursive call of the loop
ListArm ==
    /\ pc = "call"
    /\ arg # <<>>
    /\ arg[1] = "l"
    /\ LET list_string == Tail(arg)
       IN  Call(list_string, Append(stack, ListFrame(arg, list_string, <<>>)))

\* ListElement with the assignment of line 91 (list_string = rest) left out: the
\* loop decodes the same text again
ListElementKeepsCursor ==
    /\ pc = "ret"
    /\ stack # <<>>
    /\ Top.kind = "l"
    /\ LET list == Append(Top.acc, ret.val)
           rest == ret.rest
       IN  IF rest = <<>>
           THEN Panic
           ELSE IF rest[1] = "e"
           THEN Return(BList(list), Tail(rest), Pop)
           ELSE Call(Top.cursor,
                     Append(Pop, ListFrame(Top.encoded_value, Top.cursor, list)))

\* lines 85-92: the call of line 85 has returned (decoded_value, rest)
ListElement ==
    /\ pc = "ret"
    /\ stack # <<>>
    /\ Top.kind = "l"
    /\ LET list == Append(Top.acc, ret.val)
           rest == ret.rest
       IN  IF rest = <<>>
           THEN Panic                                  \* line 87: unwrap on None
           ELSE IF rest[1] = "e"
           THEN Return(BList(list), Tail(rest), Pop)
           ELSE Call(rest, Append(Pop, ListFrame(Top.encoded_value, rest, list)))

\* lines 94-99: the dictionary arm, up to the first recursive call of the loop
DictionaryArm ==
    /\ pc = "call"
    /\ arg # <<>>
    /\ arg[1] = "d"
    /\ LET dict_string == Tail(arg)
       IN  Call(dict_string,
                Append(stack, DictFrame(arg, dict_string, EmptyMap, <<>>, "key")))

\* lines 99-100 and 109: the call of line 99 has returned; the while-let pattern
\* (Bencode::String(key), rest) matches or the loop is left
DictionaryKey ==
    /\ pc = "ret"
    /\ stack # <<>>
    /\ Top.kind = "d"
    /\ Top.at = "key"
    /\ IF ret.val.tag = "String"
       THEN Call(ret.rest,
                 Append(Pop, DictFrame(Top.encoded_value, Top.cursor, Top.acc,
                                       ret.val.v, "value")))
       ELSE Return(BDictionary(Top.acc), <<>>, Pop)   \* line 109

\* lines 100-106: the call of line 100 has returned (value, rest)
DictionaryValue ==
    /\ pc = "ret"
    /\ stack # <<>>
    /\ Top.kind = "d"
    /\ Top.at = "value"
    /\ LET dict == MapInsert(Top.acc, Top.key, ret.val)
           rest == ret.rest
       IN  IF rest = <<>>
           THEN Panic                                  \* line 102: unwrap on None
           ELSE IF rest[1] = "e"
           THEN Return(BDictionary(dict), Tail(rest), Pop)
           ELSE Call(rest,
                     Append(Pop, DictFrame(Top.encoded_value, rest, dict, <<>>, "key")))

\* line 111: no arm of the match applies
Unhandled ==
    /\ pc = "call"
    /\ arg # <<>>
    /\ arg[1] \notin Digits \cup {"i", "l", "d"}
    /\ Panic

Next ==
    \/ EmptyInput
    \/ StringArm
    \/ IntegerArm
    \/ ListArm
    \/ ListElement
    \/ DictionaryArm
    \/ DictionaryKey
    \/ DictionaryValue
    \/ Unhandled

Spec == Init /\ [][Next]_vars

\* the code is sequential: an activation that can take a step takes it
FairSpec == Spec /\ WF_vars(Next)

\* the outermost call has returned to main (line 121)
Returned == pc = "ret" /\ stack = <<>>

\* the process has aborted
Panicked == pc = "panic"

Finished == Returned \/ Panicked

(***************************************************************************)
(* The wire format the claims speak of (spec.md, sections 4.2 and 6): a    *)
(* reference reading of one value at the start of a text, used only to     *)
(* state the claims.  With canonical = TRUE an integer text must be the    *)
(* minimal decimal form; with FALSE any text up to the next "e" counts.    *)
(***************************************************************************)
WireBad == [ok |-> FALSE, val |-> NoValue, rest |-> <<>>]

WireGood(value, rest) == [ok |-> TRUE, val |-> value, rest |-> rest]

\* "0", or an optional "-" and digits that do not start with "0"
IsCanonicalInt(t) ==
    \/ t = <<"0">>
    \/ LET body == IF t # <<>> /\ t[1] = "-" THEN Tail(t) ELSE t
       IN  body # <<>> /\ AllDigits(body) /\ body[1] # "0"

CanonicalValue(t) ==
    IF t[1] = "-" THEN 0 - DecimalValue(Tail(t)) ELSE DecimalValue(t)

RECURSIVE Wire(_, _), WireItems(_, _, _), WirePairs(_, _, _)
Wire(s, canonical) ==
    IF s = <<>> THEN WireBad
    ELSE IF s[1] \in Digits
    THEN LET sp == split_once(s, ":")
         IN  IF sp.some /\ AllDigits(sp.before)
                /\ DecimalValue(sp.before) <= Len(sp.after)
             THEN WireGood(BString(SliceTo(sp.after, DecimalValue(sp.before))),
                           SliceFrom(sp.after, DecimalValue(sp.before)))
             ELSE WireBad
    ELSE IF s[1] = "i"
    THEN LET sp == split_once(Tail(s), "e")
         IN  IF ~sp.some THEN WireBad
             ELSE IF IsCanonicalInt(sp.before)
             THEN WireGood(BInteger(CanonicalValue(sp.before)), sp.after)
             ELSE IF canonical THEN WireBad
             ELSE WireGood(BInteger(0), sp.after)
    ELSE IF s[1] = "l"
    THEN LET r == WireItems(Tail(s), <<>>, canonical)
         IN  IF r.ok THEN WireGood(BList(r.val), r.rest) ELSE WireBad
    ELSE IF s[1] = "d"
    THEN LET r == WirePairs(Tail(s), EmptyMap, canonical)
         IN  IF r.ok THEN WireGood(BDictionary(r.val), r.rest) ELSE WireBad
    ELSE WireBad

WireItems(s, acc, canonical) ==
    IF s = <<>> THEN WireBad
    ELSE IF s[1] = "e" THEN WireGood(acc, Tail(s))
    ELSE LET r == Wire(s, canonical)
         IN  IF r.ok THEN WireItems(r.rest, Append(acc, r.val), canonical)
             ELSE WireBad

WirePairs(s, acc, canonical) ==
    IF s = <<>> THEN WireBad
    ELSE IF s[1] = "e" THEN WireGood(acc, Tail(s))
    ELSE LET k == Wire(s, canonical)
         IN  IF k.ok /\ k.val.tag = "String"
             THEN LET w == Wire(k.rest, canonical)
                  IN  IF w.ok
                      THEN WirePairs(w.rest, MapInsert(acc, k.val.v, w.val), canonical)
                      ELSE WireBad
             ELSE WireBad

\* structural equality of two Bencode values (derive(PartialEq), line 7)
RECURSIVE SameValue(_, _)
SameValue(a, b) ==
    /\ a.tag = b.tag
    /\ CASE a.tag \in {"String", "Integer"} -> a.v = b.v
         [] a.tag = "List" ->
                /\ Len(a.v) = Len(b.v)
                /\ \A k \in 1..Len(a.v) : SameValue(a.v[k], b.v[k])
         [] a.tag = "Dictionary" ->
                /\ DOMAIN a.v = DOMAIN b.v
                /\ \A k \in DOMAIN a.v : SameValue(a.v[k], b.v[k])
         [] OTHER -> TRUE

\* the decoder returned what the reference reading r gives
ReturnedAs(r) ==
    /\ Returned
    /\ SameValue(ret.val, r.val)
    /\ ret.rest = r.rest

(***************************************************************************)
(* The claims.                                                             *)
(***************************************************************************)
InputW == Wire(input, TRUE)

\* the text has the form <n>:<bytes>, with at least n bytes after the first ":"
HasStringForm(s) ==
    /\ s # <<>>
    /\ s[1] \in Digits
    /\ split_once(s, ":").some
    /\ AllDigits(split_once(s, ":").before)
    /\ DecimalValue(split_once(s, ":").before) <= Len(split_once(s, ":").after)

\* C1: an input <n>:<bytes> with at least n bytes after the first ":" decodes to
\* the String of exactly the first n bytes after the ":", and the remainder is
\* everything after those n bytes.
C1_StringTakesDeclaredBytes ==
    (Finished /\ HasStringForm(input)) =>
        LET sp == split_once(input, ":")
            n == DecimalValue(sp.before)
        IN  /\ Returned
            /\ ret.val.tag = "String"
            /\ ret.val.v = SliceTo(sp.after, n)
            /\ ret.rest = SliceFrom(sp.after, n)

\* C2: an input starting with "i" decodes to Integer(n) exactly when the text
\* between the "i" and the next "e" is the minimal decimal form of n, and then
\* the remainder is what follows the "e"; every other integer text is rejected.
C2_IntegerIsCanonical ==
    (Finished /\ input # <<>> /\ input[1] = "i") =>
        LET sp == split_once(Tail(input), "e")
            canon == sp.some /\ IsCanonicalInt(sp.before)
        IN  /\ Returned <=> canon
            /\ Returned => /\ ret.val.tag = "Integer"
                           /\ ret.val.v = CanonicalValue(sp.before)
                           /\ ret.rest = sp.after

\* C3: the input "le" decodes to the empty List and "de" to the empty
\* Dictionary, each with an empty remainder.
C3_EmptyContainers ==
    /\ (Finished /\ input = <<"l", "e">>) => ReturnedAs(WireGood(BList(<<>>), <<>>))
    /\ (Finished /\ input = <<"d", "e">>) =>
           ReturnedAs(WireGood(BDictionary(EmptyMap), <<>>))

\* the call made for a dictionary key has returned a value that is not a String
NonStringKey ==
    /\ pc = "ret"
    /\ stack # <<>>
    /\ Top.kind = "d"
    /\ Top.at = "key"
    /\ ret.val.tag # "String"

\* C4: when the bytes at a key position of a dictionary decode to a value that
\* is not a String, the decoder fails: the dictionary activation does not return.
C4_NonStringKeyFails == [][NonStringKey => pc' # "ret"]_vars

\* C5: whenever the decoder returns, the remainder is the suffix of the input that
\* begins right after one complete encoded value at the start of the input.
C5_RemainderFollowsValue ==
    Returned => /\ Wire(input, FALSE).ok
                /\ ret.rest = Wire(input, FALSE).rest

\* C6: an input "l" v1 ... vk "e" with k >= 1 well-formed elements decodes to the
\* List of the decodings of v1 ... vk in wire order, and the remainder is what
\* follows the closing "e".
C6_ListInWireOrder ==
    (Finished /\ InputW.ok /\ InputW.val.tag = "List" /\ Len(InputW.val.v) >= 1)
        => ReturnedAs(InputW)

\* C7: an input "d" (k1 v1) ... (kn vn) "e" with n >= 1 decodes to the Dictionary
\* with key set {k1..kn} mapping each key to the decoding of the value of its last
\* occurrence, whatever the order of the keys.
C7_DictionaryLastWins ==
    (Finished /\ InputW.ok /\ InputW.val.tag = "Dictionary"
        /\ DOMAIN InputW.val.v # {})
        => ReturnedAs(InputW)

\* C8: for a malformed input the decoder neither aborts the process nor returns a
\* value (the caller gets an error result).
C8_MalformedIsErrorResult ==
    ~InputW.ok => (~Panicked /\ ~Returned)

(***************************************************************************)
(* The canonical encoding of a value (spec.md, section 4.3).  The source   *)
(* has no encoder; this one is used only to state the round trip.          *)
(***************************************************************************)
\* the value of a byte, for the ascending byte order of dictionary keys
ByteCode(b) ==
    CASE b = "+" -> 43 [] b = "-" -> 45 [] b \in Digits -> 48 + DigitVal(b)
      [] b = ":" -> 58 [] b = "d" -> 100 [] b = "e" -> 101 [] b = "i" -> 105
      [] b = "l" -> 108 [] b = "A9" -> 169 [] b = "C3" -> 195

RECURSIVE LexLess(_, _)
\* a is before b in lexicographic byte order
LexLess(a, b) ==
    IF b = <<>> THEN FALSE
    ELSE IF a = <<>> THEN TRUE
    ELSE IF a[1] = b[1] THEN LexLess(Tail(a), Tail(b))
    ELSE ByteCode(a[1]) < ByteCode(b[1])

DigitChar(n) ==
    CASE n = 0 -> "0" [] n = 1 -> "1" [] n = 2 -> "2" [] n = 3 -> "3"
      [] n = 4 -> "4" [] n = 5 -> "5" [] n = 6 -> "6" [] n = 7 -> "7"
      [] n = 8 -> "8" [] n = 9 -> "9"

RECURSIVE NatText(_)
\* the minimal decimal text of a natural number
NatText(n) ==
    IF n < 10 THEN <<DigitChar(n)>>
    ELSE Append(NatText(n \div 10), DigitChar(n % 10))

IntText(n) == IF n < 0 THEN <<"-">> \o NatText(0 - n) ELSE NatText(n)

RECURSIVE Encode(_), EncodeList(_), EncodePairs(_, _)
Encode(value) ==
    CASE value.tag = "String" -> NatText(Len(value.v)) \o <<":">> \o value.v
      [] value.tag = "Integer" -> <<"i">> \o IntText(value.v) \o <<"e">>
      [] value.tag = "List" -> <<"l">> \o EncodeList(value.v) \o <<"e">>
      [] value.tag = "Dictionary" ->
             <<"d">> \o EncodePairs(value.v, DOMAIN value.v) \o <<"e">>

EncodeList(l) ==
    IF l = <<>> THEN <<>> ELSE Encode(Head(l)) \o EncodeList(Tail(l))

\* the pairs of d whose keys are in keys, in ascending byte order of the keys
EncodePairs(d, keys) ==
    IF keys = {} THEN <<>>
    ELSE LET k == CHOOSE x \in keys : \A y \in keys \ {x} : LexLess(x, y)
         IN  Encode(BString(k)) \o Encode(d[k]) \o EncodePairs(d, keys \ {k})

\* the input is the canonical encoding of a value tree, with nothing after it
IsCanonicalEncoding(s) ==
    /\ Wire(s, TRUE).ok
    /\ Wire(s, TRUE).rest = <<>>
    /\ Encode(Wire(s, TRUE).val) = s

\* C9: decoding the canonical encoding of a value tree (empty lists and empty
\* dictionaries included) returns a value structurally equal to the tree, with an
\* empty remainder.
C9_RoundTrip ==
    (Finished /\ IsCanonicalEncoding(input)) => ReturnedAs(InputW)

(***************************************************************************)
(* Termination.                                                            *)
(***************************************************************************)
\* r is a suffix of s and is shorter than s
IsStrictSuffix(r, s) ==
    /\ Len(r) < Len(s)
    /\ r = SliceFrom(s, Len(s) - Len(r))

\* the encoded_value of the activation that takes the next step
RunningInput == IF pc = "call" THEN arg ELSE Top.encoded_value

\* a call that returns a value returns a strictly shorter suffix of its input
ReturnShrinks ==
    pc' = "ret" => IsStrictSuffix(ret'.rest, RunningInput)

\* an iteration of the list loop or of the dictionary loop that goes round leaves
\* a strictly shorter text (list_string, dict_string) to decode
LoopShrinks ==
    (pc = "ret" /\ pc' = "call" /\ Top'.at \in {"element", "key"}) =>
        IsStrictSuffix(Top'.cursor, Top.cursor)

\* a recursive call is given a strictly shorter suffix of its caller's input
CallShrinks ==
    (pc' = "call") =>
        /\ IsStrictSuffix(arg', Top'.encoded_value)
        /\ Len(stack') <= Len(input)

\* C10: every call that returns a value returns a strictly shorter suffix of its
\* input, every iteration of the list loop and of the dictionary loop that goes
\* round strictly shrinks the text left to decode, and decoding always ends, in a
\* returned value or in a failure.
C10_DecodingTerminates ==
    /\ [][ReturnShrinks /\ LoopShrinks /\ CallShrinks]_vars
    /\ <>Finished

\* C10 witness: the decoder has returned a list after going round the list loop
\* at least once and decoding a nested, non-empty container on the way.
C10_LoopsWentRound ==
    /\ Returned
    /\ ret.val.tag = "List"
    /\ Len(ret.val.v) >= 2
    /\ \E k \in 1..Len(ret.val.v) :
           /\ ret.val.v[k].tag \in {"List", "Dictionary"}
           /\ DOMAIN ret.val.v[k].v # {}

(***************************************************************************)
(* Where the decoder and the wire format agree.  The failures of C3, C6,   *)
(* C7 and C9 all come from an empty container in the text; outside of      *)
(* that, and of a string length that ends inside a character (C1), a       *)
(* well-formed text is decoded as the wire format says.                    *)
(***************************************************************************)
\* the text holds "le" or "de" somewhere
HasEmptyContainer(s) ==
    \E k \in 1..(Len(s) - 1) : s[k] \in {"l", "d"} /\ s[k + 1] = "e"

AgreesOnOtherWellFormedTexts ==
    (Finished /\ InputW.ok /\ IsUtf8(InputW.rest) /\ ~HasEmptyContainer(input))
        => ReturnedAs(InputW)

====
